---- MODULE Spec2Model ----
(***************************************************************************)
(* Artifact<T> (src/src/lib.rs): a OnceCell<RwLock<T>> that is filled by   *)
(* init from a JSON file, read through get, replaced through update and    *)
(* reloaded periodically by watch.                                         *)
(*                                                                         *)
(* T is the two-field ExampleStruct of the tests.  A value is "whole" when *)
(* both fields carry the same version stamp k; the assignment              *)
(* `*data = new_data` is a non-atomic memory write and is modelled field   *)
(* by field, so that a reader overlapping a writer would see a mixture.    *)
(*                                                                         *)
(* Every await in the source is a point where other tasks may run; each    *)
(* action below is the code between two such points.                       *)
(***************************************************************************)
EXTENDS Integers, Sequences, FiniteSets, TLC

\* ---------------------------------------------------------------- bounds
NumTasks == 2
NumVals == 2

Tasks == 1..NumTasks
Stamps == 1..NumVals

\* ---------------------------------------------------------------- values
None == 0

\* ExampleStruct { field1, field2 }
ExampleStruct(a, b) == [field1 |-> a, field2 |-> b]
Val(k) == ExampleStruct(k, k)
Values == {Val(k) : k \in Stamps}
Uninit == ExampleStruct(None, None)

\* The file behind the source locator: absent, or a JSON document whose
\* members carry their JSON type.
Missing == [exists |-> FALSE]
Doc(k) == [exists |-> TRUE, field1 |-> <<"string", k>>, field2 |-> <<"number", k>>]
BadDoc(k) == [exists |-> TRUE, field1 |-> <<"string", k>>, field2 |-> <<"string", k>>]
Contents == {Missing} \cup {Doc(k) : k \in Stamps} \cup {BadDoc(1)}

\* ---------------------------------------------------------------- errors
IoError(e) == [variant |-> "IoError", inner |-> e]
SerdeError(e) == [variant |-> "SerdeError", inner |-> e]
InitializationError(m) == [variant |-> "InitializationError", inner |-> m]
UpdateError(m) == [variant |-> "UpdateError", inner |-> m]
WatchError(m) == [variant |-> "WatchError", inner |-> m]

\* impl Display for ArtifactError: the message a wrapped error is turned into
to_string(e) ==
  CASE e.variant = "IoError" -> <<"I/O error: ", e.inner>>
    [] e.variant = "SerdeError" -> <<"JSON serialization/deserialization error: ", e.inner>>
    [] e.variant = "InitializationError" -> <<"Initialization error: ", e.inner>>
    [] e.variant = "UpdateError" -> <<"Update error: ", e.inner>>
    [] e.variant = "WatchError" -> <<"Watch error: ", e.inner>>

Ok(v) == [ok |-> TRUE, val |-> v]
Err(e) == [ok |-> FALSE, err |-> e]

\* serde_json::from_str::<ExampleStruct>: field1 must be a string, field2 a number
from_str(doc) ==
  IF doc.field1[1] = "string" /\ doc.field2[1] = "number"
    THEN Ok(ExampleStruct(doc.field1[2], doc.field2[2]))
    ELSE Err(SerdeError("invalid type"))

\* get_data: open and read the file, then decode it
get_data(file) ==
  IF ~file.exists THEN Err(IoError("NotFound")) ELSE from_str(file)

\* ------------------------------------------------------------ call results
\* How a call of task t ended: with a Result, in a panic, or aborted from outside.
Returned(t, op, r) ==
  IF r.ok THEN [task |-> t, op |-> op, kind |-> "Ok"]
          ELSE [task |-> t, op |-> op, kind |-> "Err", err |-> r.err]
Panicked(t, op) == [task |-> t, op |-> op, kind |-> "Panic"]
Cancelled(t, op) == [task |-> t, op |-> op, kind |-> "Cancelled"]

VARIABLES
  source,    \* content of the artifact file
  cell,      \* OnceCell: None, or the identity of the RwLock stored in it
  data,      \* the T inside the RwLock
  pc,        \* where each task stands
  watching,  \* tasks inside the loop of watch
  arg,       \* new_data of the update a task is executing
  held,      \* the tasks that hold a read guard (a task keeps at most one)
  waitq,     \* tasks queued on the RwLock, in arrival order
  rets,      \* the calls that ended in the last step, and how
  decodes,   \* successful get_data calls made by init
  initFailed, \* history: some init has returned an error
  committed  \* history: the value stored by init or by the last write that returned

vars == <<source, cell, data, pc, watching, arg, held, waitq, rets, decodes,
          initFailed, committed>>

TypeOK ==
  /\ source \in Contents
  /\ cell \in {None} \cup (1..NumTasks)
  /\ data \in [field1 : {None} \cup Stamps, field2 : {None} \cup Stamps]
  /\ pc \in [Tasks -> {"idle", "init_load", "get_wait", "update_wait", "write_field1",
                       "write_field2", "watch_sleep", "watch_load", "panicked", "cancelled"}]
  /\ watching \subseteq Tasks
  /\ arg \in [Tasks -> Values \cup {Uninit}]
  /\ held \subseteq Tasks
  /\ waitq \in Seq(Tasks)
  /\ decodes \in Nat
  /\ initFailed \in BOOLEAN
  /\ committed \in Values \cup {Uninit}

\* Artifact::new(): an empty cell, no I/O; the file is whatever is on disk.
Init ==
  /\ source \in Contents
  /\ cell = None
  /\ data = Uninit
  /\ pc = [t \in Tasks |-> "idle"]
  /\ watching = {}
  /\ arg = [t \in Tasks |-> Uninit]
  /\ held = {}
  /\ waitq = <<>>
  /\ rets = {}
  /\ decodes = 0
  /\ initFailed = FALSE
  /\ committed = Uninit

\* ------------------------------------------------------------ OnceCell
\* OnceCell::get().is_none()
is_none(c) == c = None

\* (altered) a set that replaces the lock of a cell already populated
OnceCellSet_Overwrites(c, lock) == [ok |-> TRUE, cell |-> lock]

\* OnceCell::set: stores only into an empty cell, otherwise hands the value back.
\* A lock is identified by the ordinal of the decode whose value it was built from.
OnceCellSet(c, lock) ==
  IF c = None THEN [ok |-> TRUE, cell |-> lock] ELSE [ok |-> FALSE, cell |-> c]

\* ------------------------------------------------------------ RwLock
\* tokio::sync::RwLock: any number of read guards or one write guard; requests
\* that cannot be served at once queue up and are served in arrival order.
\* (altered) a write guard that is given up before the second field is written
WriterHolds_FirstFieldOnly(p) == \E t \in Tasks : p[t] = "write_field1"

WriterHolds(p) == \E t \in Tasks : p[t] \in {"write_field1", "write_field2"}
ReadersHold(h) == h # {}

\* (altered) a lock that admits one reader at a time
ReadFree_Exclusive(p, h) == ~WriterHolds(p) /\ h = {}

ReadFree(p, h) == ~WriterHolds(p)
\* (altered) a write guard that is granted while read guards are out
WriteFree_IgnoresReaders(p, h) == ~WriterHolds(p)

WriteFree(p, h) == ~WriterHolds(p) /\ ~ReadersHold(h)

\* Hand the lock to the queue's head for as long as the head can be served.
RECURSIVE Wake(_)
Wake(s) ==
  IF s.waitq = <<>> THEN s
  ELSE LET t == Head(s.waitq) IN
    IF s.pc[t] = "get_wait"
      THEN IF ReadFree(s.pc, s.held)
             THEN Wake([s EXCEPT !.waitq = Tail(@), !.pc[t] = "idle",
                                 !.held = @ \cup {t},
                                 !.rets = @ \cup {Returned(t, "get", Ok("guard"))}])
             ELSE s
      ELSE IF WriteFree(s.pc, s.held)
             THEN [s EXCEPT !.waitq = Tail(@), !.pc[t] = "write_field1"]
             ELSE s

\* the lock as the current step starts; nothing has returned in this step yet
LockState == [pc |-> pc, held |-> held, waitq |-> waitq, rets |-> {}]

\* the next state's lock fields are those of s, after the queue has been served
Settle(s) ==
  LET w == Wake(s) IN
    /\ pc' = w.pc
    /\ held' = w.held
    /\ waitq' = w.waitq
    /\ rets' = w.rets

\* (altered) a pending lock request that stays queued when its future is dropped
Without_KeepsAll(q, t) == q

\* the queue once the pending request of t has been dropped
Without(q, t) == SelectSeq(q, LAMBDA x : x # t)

\* ------------------------------------------------------------ init
\* (altered) an init that goes on to load whatever the cell holds
InitCall_AlwaysLoads(t) ==
  /\ pc[t] = "idle"
  /\ pc' = [pc EXCEPT ![t] = "init_load"]
  /\ rets' = {}
  /\ UNCHANGED <<source, cell, data, watching, arg, held, waitq, decodes, initFailed, committed>>

\* init, up to the await of get_data
InitCall(t) ==
  /\ pc[t] = "idle"
  /\ IF is_none(cell)
       THEN /\ pc' = [pc EXCEPT ![t] = "init_load"]
            /\ rets' = {}
       ELSE /\ rets' = {Returned(t, "init", Ok("unit"))}
            /\ UNCHANGED pc
  /\ UNCHANGED <<source, cell, data, watching, arg, held, waitq, decodes, initFailed, committed>>

\* (altered) an init that fills the cell before it looks at the load's result
InitLoad_SetsBeforeCheck(t) ==
  /\ pc[t] = "init_load"
  /\ LET r == get_data(source)
         s == OnceCellSet(cell, decodes + 1) IN
       /\ cell' = s.cell
       /\ decodes' = decodes + 1
       /\ IF ~s.ok
            THEN /\ rets' = {Panicked(t, "init")}
                 /\ pc' = [pc EXCEPT ![t] = "panicked"]
                 /\ UNCHANGED <<data, committed, initFailed>>
            ELSE /\ pc' = [pc EXCEPT ![t] = "idle"]
                 /\ data' = IF r.ok THEN r.val ELSE Uninit
                 /\ committed' = data'
                 /\ initFailed' = (initFailed \/ ~r.ok)
                 /\ rets' = {Returned(t, "init",
                               IF r.ok THEN Ok("unit")
                                       ELSE Err(InitializationError(to_string(r.err))))}
  /\ UNCHANGED <<source, watching, arg, held, waitq>>

\* get_data completes; map_err and `?`, or set(..).unwrap() and Ok(())
InitLoad(t) ==
  /\ pc[t] = "init_load"
  /\ LET r == get_data(source) IN
       IF ~r.ok
         THEN /\ rets' = {Returned(t, "init", Err(InitializationError(to_string(r.err))))}
              /\ pc' = [pc EXCEPT ![t] = "idle"]
              /\ initFailed' = TRUE
              /\ UNCHANGED <<cell, data, decodes, committed>>
         ELSE LET s == OnceCellSet(cell, decodes + 1) IN
              /\ decodes' = decodes + 1
              /\ cell' = s.cell
              /\ IF s.ok
                   THEN /\ data' = r.val
                        /\ committed' = r.val
                        /\ rets' = {Returned(t, "init", Ok("unit"))}
                        /\ pc' = [pc EXCEPT ![t] = "idle"]
                   ELSE /\ rets' = {Panicked(t, "init")}
                        /\ pc' = [pc EXCEPT ![t] = "panicked"]
                        /\ UNCHANGED <<data, committed>>
              /\ UNCHANGED initFailed
  /\ UNCHANGED <<source, watching, arg, held, waitq>>

\* ------------------------------------------------------------ get
\* get: expect on the cell, then read().await
GetCall(t) ==
  /\ pc[t] = "idle"
  /\ t \notin held
  /\ IF is_none(cell)
       THEN /\ pc' = [pc EXCEPT ![t] = "panicked"]
            /\ rets' = {Panicked(t, "get")}
            /\ UNCHANGED <<held, waitq>>
       ELSE Settle([LockState EXCEPT !.pc[t] = "get_wait", !.waitq = Append(@, t)])
  /\ UNCHANGED <<source, cell, data, watching, arg, decodes, initFailed, committed>>

\* (altered) a read guard whose drop wakes nobody
DropGuard_NoWake(t) ==
  /\ pc[t] = "idle"
  /\ t \in held
  /\ held' = held \ {t}
  /\ rets' = {}
  /\ UNCHANGED <<source, cell, data, pc, watching, arg, waitq, decodes, initFailed, committed>>

\* (altered) a read guard that is given up while its owner awaits the write guard
DropGuard_WhileWaiting(t) ==
  /\ t \in held
  /\ Settle([LockState EXCEPT !.held = @ \ {t}])
  /\ UNCHANGED <<source, cell, data, watching, arg, decodes, initFailed, committed>>

\* the caller drops a RwLockReadGuard
DropGuard(t) ==
  /\ pc[t] = "idle"
  /\ t \in held
  /\ Settle([LockState EXCEPT !.held = @ \ {t}])
  /\ UNCHANGED <<source, cell, data, watching, arg, decodes, initFailed, committed>>

\* ------------------------------------------------------------ update
\* (altered) an update that asks for the lock without looking at the cell
UpdateEnter_Unchecked(t, v) ==
  /\ arg' = [arg EXCEPT ![t] = v]
  /\ Settle([LockState EXCEPT !.pc[t] = "update_wait", !.waitq = Append(@, t)])
  /\ UNCHANGED watching

\* update(new_data): expect on the cell, then write().await
UpdateEnter(t, v) ==
  IF is_none(cell)
    THEN /\ pc' = [pc EXCEPT ![t] = "panicked"]
         /\ rets' = {Panicked(t, IF t \in watching THEN "watch" ELSE "update")}
         /\ watching' = watching \ {t}
         /\ UNCHANGED <<held, waitq, arg>>
    ELSE /\ arg' = [arg EXCEPT ![t] = v]
         /\ Settle([LockState EXCEPT !.pc[t] = "update_wait", !.waitq = Append(@, t)])
         /\ UNCHANGED watching

UpdateCall(t, v) ==
  /\ pc[t] = "idle"
  /\ UpdateEnter(t, v)
  /\ UNCHANGED <<source, cell, data, decodes, initFailed, committed>>

\* *data = new_data, first field
WriteField1(t) ==
  /\ pc[t] = "write_field1"
  /\ data' = [data EXCEPT !.field1 = arg[t].field1]
  /\ pc' = [pc EXCEPT ![t] = "write_field2"]
  /\ rets' = {}
  /\ UNCHANGED <<source, cell, watching, arg, held, waitq, decodes, initFailed, committed>>

\* (altered) an update that can fail once it has the lock
update_result_Fails == Err(UpdateError("lock poisoned"))

\* what update returns once it has assigned: Ok(())
update_result == Ok("unit")

\* (altered) a watch without its loop: it returns Ok(()) after the first reload
UpdateReturn_WatchExits(t, r) ==
  IF t \in watching
    THEN /\ Settle([LockState EXCEPT !.pc[t] = "idle",
                                     !.rets = {Returned(t, "update", r),
                                               Returned(t, "watch", Ok("unit"))}])
         /\ watching' = watching \ {t}
    ELSE /\ Settle([LockState EXCEPT !.pc[t] = "idle",
                                     !.rets = {Returned(t, "update", r)}])
         /\ UNCHANGED watching

\* update returns r to its caller: to the application, or to the `if let Err(e)`
\* of watch, which goes back to sleep on Ok and returns UpdateError otherwise
UpdateReturn(t, r) ==
  IF t \in watching
    THEN IF r.ok
           THEN /\ Settle([LockState EXCEPT !.pc[t] = "watch_sleep",
                                            !.rets = {Returned(t, "update", r)}])
                /\ UNCHANGED watching
           ELSE /\ Settle([LockState EXCEPT
                            !.pc[t] = "idle",
                            !.rets = {Returned(t, "update", r),
                                      Returned(t, "watch",
                                               Err(UpdateError(to_string(r.err))))}])
                /\ watching' = watching \ {t}
    ELSE /\ Settle([LockState EXCEPT !.pc[t] = "idle",
                                     !.rets = {Returned(t, "update", r)}])
         /\ UNCHANGED watching

\* (altered) an update that merges: the second field keeps its old content
WriteField2_KeepsOldField(t) ==
  /\ pc[t] = "write_field2"
  /\ arg' = [arg EXCEPT ![t] = Uninit]
  /\ committed' = arg[t]
  /\ UpdateReturn(t, update_result)
  /\ UNCHANGED <<source, cell, data, decodes, initFailed>>

\* *data = new_data, second field; the write guard is dropped and update returns
\* Ok(()), to the caller or into the loop of watch
WriteField2(t) ==
  /\ pc[t] = "write_field2"
  /\ data' = [data EXCEPT !.field2 = arg[t].field2]
  /\ arg' = [arg EXCEPT ![t] = Uninit]
  /\ committed' = arg[t]
  /\ UpdateReturn(t, update_result)
  /\ UNCHANGED <<source, cell, decodes, initFailed>>

\* ------------------------------------------------------------ watch
\* (altered) a watch whose loop loads first and sleeps afterwards
WatchCall_LoadsFirst(t) ==
  /\ pc[t] = "idle"
  /\ pc' = [pc EXCEPT ![t] = "watch_load"]
  /\ watching' = watching \cup {t}
  /\ rets' = {}
  /\ UNCHANGED <<source, cell, data, arg, held, waitq, decodes, initFailed, committed>>

\* watch: the path is built and the loop entered
WatchCall(t) ==
  /\ pc[t] = "idle"
  /\ pc' = [pc EXCEPT ![t] = "watch_sleep"]
  /\ watching' = watching \cup {t}
  /\ rets' = {}
  /\ UNCHANGED <<source, cell, data, arg, held, waitq, decodes, initFailed, committed>>

\* tokio::time::sleep(interval) elapses
WatchTimer(t) ==
  /\ pc[t] = "watch_sleep"
  /\ pc' = [pc EXCEPT ![t] = "watch_load"]
  /\ rets' = {}
  /\ UNCHANGED <<source, cell, data, watching, arg, held, waitq, decodes, initFailed, committed>>

\* (altered) a watch that swallows a failed load and tries again after the next sleep
WatchLoad_RetriesOnError(t) ==
  /\ pc[t] = "watch_load"
  /\ LET r == get_data(source) IN
       IF r.ok
         THEN UpdateEnter(t, r.val)
         ELSE /\ rets' = {}
              /\ pc' = [pc EXCEPT ![t] = "watch_sleep"]
              /\ UNCHANGED <<watching, arg, held, waitq>>
  /\ UNCHANGED <<source, cell, data, decodes, initFailed, committed>>

\* (altered) a watch that decodes the source and then discards what it decoded
WatchLoad_Discards(t) ==
  /\ pc[t] = "watch_load"
  /\ LET r == get_data(source) IN
       IF r.ok
         THEN /\ pc' = [pc EXCEPT ![t] = "watch_sleep"]
              /\ rets' = {}
              /\ UNCHANGED <<watching, arg, held, waitq>>
         ELSE /\ rets' = {Returned(t, "watch", Err(WatchError(to_string(r.err))))}
              /\ pc' = [pc EXCEPT ![t] = "idle"]
              /\ watching' = watching \ {t}
              /\ UNCHANGED <<arg, held, waitq>>
  /\ UNCHANGED <<source, cell, data, decodes, initFailed, committed>>

\* (altered) a watch that compares first and leaves an equal stored value alone
WatchLoad_SkipsUnchanged(t) ==
  /\ pc[t] = "watch_load"
  /\ LET r == get_data(source) IN
       IF r.ok
         THEN IF cell # None /\ r.val = data
                THEN /\ pc' = [pc EXCEPT ![t] = "watch_sleep"]
                     /\ rets' = {}
                     /\ UNCHANGED <<watching, arg, held, waitq>>
                ELSE UpdateEnter(t, r.val)
         ELSE /\ rets' = {Returned(t, "watch", Err(WatchError(to_string(r.err))))}
              /\ pc' = [pc EXCEPT ![t] = "idle"]
              /\ watching' = watching \ {t}
              /\ UNCHANGED <<arg, held, waitq>>
  /\ UNCHANGED <<source, cell, data, decodes, initFailed, committed>>

\* get_data completes inside the loop: update(new_data), or return WatchError
WatchLoad(t) ==
  /\ pc[t] = "watch_load"
  /\ LET r == get_data(source) IN
       IF r.ok
         THEN UpdateEnter(t, r.val)
         ELSE /\ rets' = {Returned(t, "watch", Err(WatchError(to_string(r.err))))}
              /\ pc' = [pc EXCEPT ![t] = "idle"]
              /\ watching' = watching \ {t}
              /\ UNCHANGED <<arg, held, waitq>>
  /\ UNCHANGED <<source, cell, data, decodes, initFailed, committed>>

\* the runtime aborts a watch task at one of its awaits; what it owns is dropped
Cancel(t) ==
  /\ t \in watching
  /\ pc[t] \in {"watch_sleep", "watch_load", "update_wait"}
  /\ watching' = watching \ {t}
  /\ arg' = [arg EXCEPT ![t] = Uninit]
  /\ Settle([LockState EXCEPT !.pc[t] = "cancelled", !.held = @ \ {t},
                              !.waitq = Without(@, t),
                              !.rets = {Cancelled(t, "watch")}])
  /\ UNCHANGED <<source, cell, data, decodes, initFailed, committed>>

\* ------------------------------------------------------------ environment
\* the file is created, rewritten or removed by someone else
WriteSource(c) ==
  /\ c # source
  /\ source' = c
  /\ rets' = {}
  /\ UNCHANGED <<cell, data, pc, watching, arg, held, waitq, decodes, initFailed, committed>>

Next ==
  \/ \E t \in Tasks : InitCall(t)
  \/ \E t \in Tasks : InitLoad(t)
  \/ \E t \in Tasks : GetCall(t)
  \/ \E t \in Tasks : DropGuard(t)
  \/ \E t \in Tasks, v \in Values : UpdateCall(t, v)
  \/ \E t \in Tasks : WriteField1(t)
  \/ \E t \in Tasks : WriteField2(t)
  \/ \E t \in Tasks : WatchCall(t)
  \/ \E t \in Tasks : WatchTimer(t)
  \/ \E t \in Tasks : WatchLoad(t)
  \/ \E t \in Tasks : Cancel(t)
  \/ \E c \in Contents : WriteSource(c)

Spec == Init /\ [][Next]_vars

\* The runtime resumes a task whose await has completed: a finished file read, a
\* granted lock, an elapsed timer. Callers, the file's writers and whoever aborts
\* tasks are under no such obligation.
Resumes(t) ==
  /\ WF_vars(InitLoad(t))
  /\ WF_vars(WriteField1(t))
  /\ WF_vars(WriteField2(t))
  /\ WF_vars(WatchTimer(t))
  /\ WF_vars(WatchLoad(t))

FairSpec == Spec /\ \A t \in Tasks : Resumes(t)

\* ------------------------------------------------- readers and writers only
\* The container as a successful init leaves it, used as the concurrent test uses
\* it: every task either gets and later drops its guard, or updates while it holds
\* no guard.
InitRW ==
  /\ \E k \in Stamps : source = Doc(k) /\ data = Val(k) /\ committed = Val(k)
  /\ cell = 1
  /\ decodes = 1
  /\ initFailed = FALSE
  /\ pc = [t \in Tasks |-> "idle"]
  /\ watching = {}
  /\ arg = [t \in Tasks |-> Uninit]
  /\ held = {}
  /\ waitq = <<>>
  /\ rets = {Returned(1, "init", Ok("unit"))}

UpdateTask(t, v) == t \notin held /\ UpdateCall(t, v)

NextRW ==
  \/ \E t \in Tasks : GetCall(t)
  \/ \E t \in Tasks : DropGuard(t)
  \/ \E t \in Tasks, v \in Values : UpdateTask(t, v)
  \/ \E t \in Tasks : WriteField1(t)
  \/ \E t \in Tasks : WriteField2(t)

\* the runtime resumes a task that has been granted the lock, and a reader's
\* guard goes out of scope
SpecRW ==
  /\ InitRW /\ [][NextRW]_vars
  /\ \A t \in Tasks :
        WF_vars(WriteField1(t)) /\ WF_vars(WriteField2(t)) /\ WF_vars(DropGuard(t))

\* ======================================================================
\* Claims
\* ======================================================================
InitReturns(kind) == {r \in rets : r.op = "init" /\ r.kind = kind}

\* C1: concurrent init calls on an empty container with a well-formed source
\* perform exactly one decode, and every one of them returns success: no init
\* call ends in a panic and init never decodes the source a second time.
C1_ConcurrentInitLoadsOnce ==
  /\ decodes <= 1
  /\ InitReturns("Panic") = {}

\* C2: single assignment. A populated cell keeps its lock for ever (it is never
\* emptied and never given another lock); the step that populates it stores the
\* whole decoded value of the source; and the cell is empty exactly when no field
\* of the stored value has been initialized.
C2_SingleAssignment ==
  /\ [](IF cell = None THEN data = Uninit
                       ELSE data.field1 # None /\ data.field2 # None)
  /\ [][/\ cell # None => cell' = cell
        /\ (cell = None /\ cell' # None) =>
              /\ get_data(source).ok
              /\ data' = get_data(source).val
              /\ data' \in Values]_vars

\* a competing init has been turned away while the cell kept the first lock
C2_Witness ==
  /\ cell = 1
  /\ decodes = 2
  /\ InitReturns("Panic") # {}

\* C3: an init call that starts on a populated cell returns Ok in that same
\* step, whatever the source holds, without going on to a load, and leaves the
\* cell, the stored value and the source untouched.
C3_InitOnPopulatedIsNoOp ==
  [][\A t \in Tasks :
       (cell # None /\ InitCall(t)) =>
          /\ rets' = {Returned(t, "init", Ok("unit"))}
          /\ pc'[t] = "idle"
          /\ UNCHANGED <<cell, data, committed, decodes, source>>]_vars

\* init has returned Ok on a populated cell while the source cannot be loaded
C3_Witness ==
  /\ InitReturns("Ok") # {}
  /\ ~get_data(source).ok
  /\ cell # None
  /\ decodes = 1

\* C4: a load that fails in init makes init return an error and leaves the cell
\* and the stored value as they were; and once an init has failed, an init whose
\* load finds a decodable source and the cell still empty populates the cell with
\* that source's value and returns Ok.
C4_FailedInitLeavesCellEmpty ==
  [][\A t \in Tasks :
       /\ (InitLoad(t) /\ ~get_data(source).ok) =>
             /\ \E r \in rets' : r.task = t /\ r.op = "init" /\ r.kind = "Err"
             /\ pc'[t] = "idle"
             /\ UNCHANGED <<cell, data>>
       /\ (InitLoad(t) /\ initFailed /\ cell = None /\ get_data(source).ok) =>
             /\ rets' = {Returned(t, "init", Ok("unit"))}
             /\ cell' # None
             /\ data' = get_data(source).val]_vars

\* an init has failed, and a later one has just populated the cell
C4_Witness ==
  /\ initFailed
  /\ InitReturns("Ok") # {}
  /\ decodes = 1
  /\ cell # None
  /\ get_data(source).ok /\ data = get_data(source).val

\* C5: the error init returns tells the two causes apart by its kind: the
\* source-unavailable kind (IoError) when the source does not exist, the
\* decode-failure kind (SerdeError) when its content does not decode.
C5_InitErrorKindsDistinct ==
  \A r \in InitReturns("Err") :
     r.err.variant = (IF source.exists THEN "SerdeError" ELSE "IoError")

\* C6: get and update on an empty cell end in a panic. While the cell is empty
\* nobody holds or awaits the lock, nothing is stored, and the only way a get or
\* an update ends is a panic; the panicking call leaves the cell empty and the
\* value unset, and a panicked task never resumes.
C6_AccessBeforeInitPanics ==
  /\ [](cell = None =>
          /\ held = {} /\ waitq = <<>> /\ data = Uninit
          /\ \A t \in Tasks : pc[t] \notin {"get_wait", "update_wait",
                                             "write_field1", "write_field2"}
          /\ \A r \in rets : r.op \in {"get", "update"} => r.kind = "Panic")
  /\ [][\A t \in Tasks :
          /\ (cell = None /\ GetCall(t)) =>
                /\ rets' = {Panicked(t, "get")} /\ pc'[t] = "panicked"
                /\ UNCHANGED <<cell, data, held>>
          /\ (cell = None /\ \E v \in Values : UpdateCall(t, v)) =>
                /\ rets' = {Panicked(t, "update")} /\ pc'[t] = "panicked"
                /\ UNCHANGED <<cell, data, committed>>
          /\ pc[t] = "panicked" => pc'[t] = "panicked"]_vars

\* an update has panicked on the empty cell while an init was still loading
C6_Witness ==
  /\ cell = None
  /\ \E t \in Tasks : pc[t] = "init_load"
  /\ \E r \in rets : r.op = "update" /\ r.kind = "Panic"

\* C7: a watch task running on a container that is not initialized ends in a
\* panic, whatever the source holds: unless it is cancelled, it never returns
\* anything else while the cell is empty.
C7_WatchBeforeInitPanics ==
  \A r \in rets :
     (r.op = "watch" /\ r.kind # "Cancelled" /\ cell = None) => r.kind = "Panic"

Writers == {t \in Tasks : pc[t] \in {"write_field1", "write_field2"}}

\* C8: mutual exclusion. At most one task holds the write guard, no read guard
\* is out while one does, and the value of a populated cell changes only in a
\* step taken while a write guard is held.
C8_MutualExclusion ==
  /\ [](Cardinality(Writers) <= 1 /\ (Writers # {} => held = {}))
  /\ [][(cell # None /\ data' # data) => Writers # {}]_vars

\* a writer is half way through its assignment and a reader is kept waiting
C8_Witness ==
  /\ \E t \in Tasks : pc[t] = "write_field2" /\ data.field1 # data.field2
  /\ \E u \in Tasks : pc[u] = "get_wait"

\* C9: no torn reads. Whenever a read guard is out, the value behind it is a
\* whole value: both fields come from the same version.
C9_NoTornReads ==
  held # {} => (data \in Values /\ data.field1 = data.field2)

\* a reader holds its guard while a writer with another value waits for it
C9_Witness ==
  /\ held # {}
  /\ \E t \in Tasks : pc[t] = "update_wait" /\ arg[t] # data

\* C10: reads are linearized with writes. The value behind a read guard is the
\* value committed last: the one init stored, or the one passed to the last
\* update or reload that has returned.
C10_ReadsSeeLastCommit ==
  held # {} => data = committed

\* a get that waited behind an update returns as the update does, and sees its value
C10_Witness ==
  /\ \E r \in rets : r.op = "update" /\ r.kind = "Ok"
  /\ \E r \in rets : r.op = "get" /\ r.kind = "Ok"
  /\ held # {}
  /\ data = committed

\* C11 (as stated): with a watch task running on an initialized container and the
\* source holding a well-formed V2 from now on, the stored value becomes V2.
C11_PeriodicPickup ==
  \A t \in Tasks, k \in Stamps :
     (t \in watching /\ cell # None /\ source = Doc(k))
        ~> (committed = Val(k) \/ source # Doc(k) \/ t \notin watching)

\* C11 (amended): the same, provided the read guards are all released again and
\* again, so that the reload is not kept waiting for ever.
C11_PeriodicPickupIfReadersRelease ==
  \A t \in Tasks, k \in Stamps :
     []<>(held = {}) =>
        ((t \in watching /\ cell # None /\ source = Doc(k))
           ~> (committed = Val(k) \/ source # Doc(k) \/ t \notin watching))

\* a reload is half way through replacing V1 by the source's V2 while a get waits
C11_Witness ==
  \E t \in watching :
     /\ pc[t] = "write_field2"
     /\ source = Doc(2) /\ arg[t] = Val(2)
     /\ committed = Val(1) /\ data = ExampleStruct(2, 1)
     /\ \E u \in Tasks : pc[u] = "get_wait"

WatchReturns == {r \in rets : r.op = "watch"}

\* C12: a load that fails in a watch cycle makes watch return WatchError and
\* leave the loop; the step changes neither the cell nor the stored value nor the
\* lock, and a task that is out of the loop is at none of the loop's awaits.
C12_WatchStopsOnLoadFailure ==
  /\ [](\A t \in Tasks : t \notin watching => pc[t] \notin {"watch_sleep", "watch_load"})
  /\ [][\A t \in Tasks :
          (WatchLoad(t) /\ ~get_data(source).ok) =>
             /\ rets' = {Returned(t, "watch",
                           Err(WatchError(to_string(get_data(source).err))))}
             /\ pc'[t] = "idle"
             /\ t \notin watching'
             /\ UNCHANGED <<cell, data, committed, arg, held, waitq>>]_vars

\* a watch has returned its error on an initialized container whose value is whole
C12_Witness ==
  /\ \E r \in WatchReturns : r.kind = "Err"
  /\ cell # None
  /\ data \in Values /\ data = committed

\* C13: on an initialized container watch ends only by a failed load or by being
\* cancelled: it returns nothing else, a reload that has been written puts the task
\* back to sleep inside the loop, and a task leaves the loop only as its watch ends.
C13_WatchRunsWhileLoadsSucceed ==
  /\ [](cell # None =>
          \A r \in WatchReturns :
             \/ r.kind = "Cancelled"
             \/ r.kind = "Err" /\ r.err.variant = "WatchError" /\ ~get_data(source).ok)
  /\ [][\A t \in watching :
          /\ (cell # None /\ pc[t] = "write_field2" /\ pc'[t] # "write_field2") =>
                (pc'[t] = "watch_sleep" /\ t \in watching')
          /\ t \notin watching' => \E r \in rets' : r.task = t /\ r.op = "watch"]_vars

\* a watch task is asleep again right after its reload has been written
C13_Witness ==
  \E t \in watching :
     /\ pc[t] = "watch_sleep"
     /\ Returned(t, "update", Ok("unit")) \in rets
     /\ cell # None

Waiting(t) == pc[t] \in {"get_wait", "update_wait"}

\* the queue's head is waiting for a guard that is really out
HeadIsBlocked ==
  waitq # <<>> =>
     /\ \A i \in 1..Len(waitq) : Waiting(waitq[i])
     /\ IF pc[Head(waitq)] = "get_wait"
          THEN Writers # {}
          ELSE Writers # {} \/ held # {}

\* C14: cancelling the watch task leaves the stored value as it is (the whole
\* committed value unless another task is writing), leaves the cancelled task
\* with no guard and no place in the queue, never leaves a waiter behind a lock
\* that is free, and, read guards being released again and again, every get and
\* update that waits after a cancellation is served.
C14_CancelLeavesLockClean ==
  /\ [](\A t \in Tasks :
          pc[t] = "cancelled" =>
             /\ t \notin held /\ t \notin watching
             /\ \A i \in 1..Len(waitq) : waitq[i] # t)
  /\ []HeadIsBlocked
  /\ [][\A t \in Tasks :
          Cancel(t) =>
             /\ pc'[t] = "cancelled"
             /\ UNCHANGED <<cell, data, committed>>
             /\ Writers = {} => data' = committed']_vars
  /\ \A u \in Tasks :
        []<>(held = {}) =>
           (((\E t \in Tasks : pc[t] = "cancelled") /\ Waiting(u)) ~> ~Waiting(u))

\* a watch task has just been cancelled while a read guard is out; the value is
\* whole and nobody is left in the queue
C14_Witness ==
  /\ \E r \in WatchReturns : r.kind = "Cancelled"
  /\ held # {}
  /\ waitq = <<>>
  /\ data \in Values /\ data = committed

\* C15: with tasks that only get (and drop their guard) or update, no call ends
\* in a panic or an error; whenever a task waits for the lock, a task that holds
\* it can move; and every call that has started returns.
C15_ReadersWritersProgress ==
  /\ [](\A r \in rets : r.kind = "Ok")
  /\ [](HeadIsBlocked /\
        ((\E u \in Tasks : Waiting(u)) =>
            (Writers # {} \/ \E h \in held : pc[h] = "idle")))
  /\ \A t \in Tasks : (pc[t] # "idle") ~> (pc[t] = "idle")

\* an update waits behind a reader that is free to drop its guard
C15_Witness ==
  \E t \in Tasks, u \in Tasks :
     /\ pc[t] = "update_wait" /\ waitq = <<t>>
     /\ u \in held /\ pc[u] = "idle"

\* C16: readers do not block one another. With no writer holding or awaiting the
\* lock, a get on an initialized container returns its guard in the same step,
\* however many read guards are out, and none of those is taken away.
C16_ReadersShareTheLock ==
  [][\A t \in Tasks :
       (/\ GetCall(t)
        /\ cell # None
        /\ \A u \in Tasks : pc[u] \notin {"update_wait", "write_field1", "write_field2"}) =>
          /\ held' = held \cup {t}
          /\ pc'[t] = "idle"
          /\ rets' = {Returned(t, "get", Ok("guard"))}]_vars

\* a get has just returned while another read guard was out
C16_Witness ==
  /\ Cardinality(held) >= 2
  /\ \E r \in rets : r.op = "get" /\ r.kind = "Ok"

InUpdate(t) == pc[t] \in {"update_wait", "write_field1", "write_field2"}

\* C17: the order of a watch cycle. Starting watch puts the task to sleep and
\* loads nothing; a load is reached only from a sleep and is left at once, so a
\* timer fire gives one load; a load that succeeds on an initialized container
\* enters update with the decoded value, which stays the argument until it is
\* written; and the next sleep begins only as that one update returns.
C17_SleepLoadUpdateOrder ==
  [][\A t \in Tasks :
       /\ WatchCall(t) => (pc'[t] = "watch_sleep" /\ UNCHANGED <<arg, data, held, waitq>>)
       /\ (pc'[t] = "watch_load" /\ pc[t] # "watch_load") => pc[t] = "watch_sleep"
       /\ (WatchLoad(t) /\ get_data(source).ok /\ cell # None) =>
             /\ arg'[t] = get_data(source).val
             /\ pc'[t] \in {"update_wait", "write_field1"}
       /\ (t \in watching /\ InUpdate(t) /\ t \in watching' /\ pc'[t] # "watch_sleep") =>
             /\ arg'[t] = arg[t]
             /\ pc'[t] \in {"update_wait", "write_field1", "write_field2"}
       /\ (t \in watching' /\ pc'[t] = "watch_sleep" /\ pc[t] # "watch_sleep") =>
             \/ WatchCall(t)
             \/ pc[t] = "write_field2" /\ WriteField2(t) /\ data'.field2 = arg[t].field2]_vars

\* a watch task has slept, loaded V2 and is inside its one update, nothing written yet
C17_Witness ==
  \E t \in watching :
     /\ pc[t] = "write_field1"
     /\ source = Doc(2) /\ arg[t] = Val(2)
     /\ data = Val(1) /\ committed = Val(1)

\* C18: a watch cycle overwrites without comparing. A successful load on an
\* initialized container asks for the write guard whatever the stored value and
\* the last commit are, equal to the decoded value or not, and when the reload
\* returns the stored value is the decoded one, so a value an update had put
\* there in between is gone.
C18_WatchOverwritesUnconditionally ==
  [][\A t \in Tasks :
       /\ (WatchLoad(t) /\ get_data(source).ok /\ cell # None) =>
             /\ \/ pc'[t] = "write_field1"
                \/ pc'[t] = "update_wait" /\ \E i \in DOMAIN waitq' : waitq'[i] = t
             /\ arg'[t] = get_data(source).val
             /\ t \in watching'
       /\ (t \in watching /\ WriteField2(t)) =>
             /\ data' = arg[t]
             /\ committed' = arg[t]
             /\ Returned(t, "update", Ok("unit")) \in rets']_vars

\* the source still holds V1, an update installed V2, and a reload is writing V1
\* over it while the application makes no call
C18_Witness ==
  \E t \in watching :
     /\ pc[t] = "write_field2"
     /\ source = Doc(1) /\ arg[t] = Val(1)
     /\ committed = Val(2) /\ data = ExampleStruct(1, 2)
     /\ \A u \in Tasks \ {t} : pc[u] = "idle"

\* C19: the lock is not re-entrant and waits have no deadline. A task awaiting
\* the write guard while holding a read guard stays exactly there in every step
\* (only the abort of a watch task takes it away); a pending update, a reload of
\* watch included, stays pending with its argument through every step that
\* leaves a read guard out; and a wait ends in the guard or in the abort
\* of the task, never in an error returned to the caller.
C19_WaitsNeverTimeOut ==
  [][\A t \in Tasks :
       /\ (pc[t] = "update_wait" /\ t \in held) =>
             \/ pc'[t] = "update_wait" /\ t \in held' /\ arg'[t] = arg[t]
             \/ Cancel(t)
       /\ (pc[t] = "update_wait" /\ held' # {}) =>
             \/ pc'[t] = "update_wait" /\ arg'[t] = arg[t]
             \/ Cancel(t)
       /\ (pc[t] = "update_wait" /\ pc'[t] # "update_wait") =>
             \/ pc'[t] = "write_field1" /\ held' = {} /\ \A r \in rets' : r.task # t
             \/ Cancel(t)
       /\ (pc[t] = "get_wait" /\ pc'[t] # "get_wait") =>
             (t \in held' /\ Returned(t, "get", Ok("guard")) \in rets')]_vars

\* one task awaits the write guard under its own read guard, and a reload of
\* watch is queued behind it
C19_Witness ==
  \E t \in Tasks, w \in watching :
     /\ t \notin watching /\ t \in held /\ pc[t] = "update_wait"
     /\ pc[w] = "update_wait"
     /\ waitq = <<t, w>>

\* C20: update has no failing path once the cell is populated: an update call
\* that ends has either returned Ok or, on an empty cell, panicked; so watch
\* never returns UpdateError, and an error returned by watch is a WatchError
\* made from the load that failed.
C20_UpdateNeverFails ==
  \A r \in rets :
     /\ r.op = "update" => (r.kind = "Ok" \/ (r.kind = "Panic" /\ cell = None))
     /\ (r.op = "watch" /\ r.kind = "Err") =>
           /\ r.err.variant = "WatchError"
           /\ ~get_data(source).ok
           /\ r.err = WatchError(to_string(get_data(source).err))

\* the update inside a watch cycle has returned Ok to the loop with V2 stored
C20_Witness ==
  \E t \in watching :
     /\ Returned(t, "update", Ok("unit")) \in rets
     /\ pc[t] = "watch_sleep"
     /\ source = Doc(2) /\ data = Val(2) /\ committed = Val(2)

====
